---- MODULE Spec2Model ----
(***************************************************************************)
(* Model of src/3corpos/corpos.py: the gravitational simulation (Body,     *)
(* compute_forces, update_positions) and the SimulationApp handlers that   *)
(* own the body list, the trail deques, the time step and the Tk timer     *)
(* chain.                                                                  *)
(*                                                                         *)
(* Numbers.  The program computes in floating point.  The model holds a    *)
(* float as <<v>>, v an integer count in fixed point, or as <<>> for NaN.  *)
(* Lengths (x, y, prev_x, prev_y), velocity*day and acceleration*day^2 are *)
(* counts of 1/Q length unit; the length unit is chosen so that the        *)
(* softening term of compute_forces is one count (EPS); time is counted in *)
(* days, so DT is 1 and update_dt(days) is days*DT; masses are whole mass  *)
(* units and G is the gravitational constant in these units.  Where a      *)
(* float operation rounds (the square root and the divisions) the model    *)
(* rounds toward zero.  The masses offered to the model divide Q, so the   *)
(* division of a force by a mass is exact, as it is in exact arithmetic.   *)
(* np records whether a body's coordinates are numpy.float64 values: a     *)
(* division by a zero numpy value yields inf/nan with a warning, a         *)
(* division by a zero Python float raises ZeroDivisionError.               *)
(***************************************************************************)
EXTENDS Integers, Sequences, FiniteSets, TLC

\* ------------------------------------------------------------ constants
G == 2000
Q == 2 * 5
EPS == 1
DT == 1
SCALE_FACTOR == 1000000000

\* ------------------------------------------------------------ bounds
\* The trail slider's range 50..500 and trail_length's value 100, scaled down.
TrailMin == 1
TrailInit == 2
TrailMax == 3
\* Steps explored after a load, bodies added after a load, timer callbacks
\* queued, and the coordinate range in which a step is explored.
MaxSteps == 3
MaxAdds == 1
MaxPending == 2
MaxCoord == 16000
\* Values of the time-step slider (days).
MaxDays == 2

\* trail_slider is the value the trail Scale widget holds; pending counts the
\* run_simulation callbacks in the Tk timer queue; raised is the exception
\* of the last handler; nsteps, nadded, tsince and recorded are history.
VARIABLES bodies, trails, trail_length, trail_slider, dt, is_running,
          preset_var, pending, nsteps, nadded, recorded, tsince, raised

vars == <<bodies, trails, trail_length, trail_slider, dt, is_running,
          preset_var, pending, nsteps, nadded, recorded, tsince, raised>>

\* ------------------------------------------------------------ floats
NaN == <<>>
Fl(v) == <<v>>
IsNaN(a) == a = <<>>
Val(a) == a[1]
Add(a, b) == IF IsNaN(a) \/ IsNaN(b) THEN NaN ELSE Fl(Val(a) + Val(b))
Sub(a, b) == IF IsNaN(a) \/ IsNaN(b) THEN NaN ELSE Fl(Val(a) - Val(b))
Mul(a, b) == IF IsNaN(a) \/ IsNaN(b) THEN NaN ELSE Fl(Val(a) * Val(b))

Abs(a) == IF a < 0 THEN -a ELSE a
\* a / b for b # 0, rounded toward zero.
Quot(a, b) == IF (a >= 0) = (b > 0) THEN Abs(a) \div Abs(b)
              ELSE -(Abs(a) \div Abs(b))

RECURSIVE SqrtSearch(_, _, _)
SqrtSearch(n, lo, hi) ==
    IF lo >= hi THEN lo
    ELSE LET mid == (lo + hi + 1) \div 2
         IN IF mid * mid <= n THEN SqrtSearch(n, mid, hi)
            ELSE SqrtSearch(n, lo, mid - 1)
\* np.sqrt of a non-negative count of 1/Q^2, as a count of 1/Q.
sqrt(n) == SqrtSearch(n, 0, IF n < 46340 THEN n ELSE 46340)

\* ------------------------------------------------------------ Body
Body(mass, x, y, vx, vy) ==
    [mass |-> mass, x |-> Fl(x), y |-> Fl(y), vx |-> vx, vy |-> vy,
     prev_x |-> Fl(x - vx * DT), prev_y |-> Fl(y - vy * DT),
     ax |-> Fl(0), ay |-> Fl(0), np |-> FALSE]

\* ------------------------------------------------------------ compute_forces
\* Lines 34-41 for one pair: the force components, or the exception raised
\* by the division by r_sq.
PairForce(bi, bj) ==
    LET dx == Sub(bj.x, bi.x)
        dy == Sub(bj.y, bi.y)
        r_sq == Add(Mul(dx, dx), Mul(dy, dy))
    IN  IF IsNaN(r_sq)
        THEN [raised |-> FALSE, fx |-> NaN, fy |-> NaN]
        ELSE IF Val(r_sq) = 0
        THEN IF bi.np \/ bj.np
             \* numpy: F is inf or nan, and F * 0.0 is nan
             THEN [raised |-> FALSE, fx |-> NaN, fy |-> NaN]
             \* Python floats: ZeroDivisionError
             ELSE [raised |-> TRUE, fx |-> NaN, fy |-> NaN]
        ELSE LET r == sqrt(Val(r_sq)) + EPS
                 F == Quot(G * bi.mass * bj.mass * Q * Q, Val(r_sq))
             IN  [raised |-> FALSE,
                  fx |-> Fl(Quot(F * Val(dx), r)),
                  fy |-> Fl(Quot(F * Val(dy), r))]

\* f / mass of lines 43-46; f is a numpy value, so a zero mass gives nan
\* (f is zero whenever the mass is).
DivMass(f, mass) ==
    IF IsNaN(f) \/ mass = 0 THEN NaN ELSE Fl(Quot(Val(f) * Q, mass))

\* Lines 45-46 with += for -=.
ContribToJ_SameSign(f, bj) == DivMass(f, bj.mass)

\* What lines 43-44 add to body i and lines 45-46 add to body j.
ContribToI(f, bi) == DivMass(f, bi.mass)
ContribToJ(f, bj) == Sub(Fl(0), DivMass(f, bj.mass))

\* Lines 43-46.
Accumulate(bs, i, j, f) ==
    [bs EXCEPT ![i].ax = Add(@, ContribToI(f.fx, bs[i])),
               ![i].ay = Add(@, ContribToI(f.fy, bs[i])),
               ![j].ax = Add(@, ContribToJ(f.fx, bs[j])),
               ![j].ay = Add(@, ContribToJ(f.fy, bs[j]))]

\* Lines 28-30, from body k on.
RECURSIVE ZeroAcc(_, _)
ZeroAcc(bs, k) ==
    IF k > Len(bs) THEN bs
    ELSE ZeroAcc([bs EXCEPT ![k].ax = Fl(0), ![k].ay = Fl(0)], k + 1)

\* The pair loop of lines 32-46 from pair (i, j) on; it stops at the pair
\* whose division raises, leaving the accelerations accumulated so far.
RECURSIVE PairLoop(_, _, _)
PairLoop(bs, i, j) ==
    IF i > Len(bs) THEN [bodies |-> bs, raised |-> FALSE]
    ELSE IF j > Len(bs) THEN PairLoop(bs, i + 1, i + 2)
    ELSE LET f == PairForce(bs[i], bs[j])
         IN  IF f.raised THEN [bodies |-> bs, raised |-> TRUE]
             ELSE PairLoop(Accumulate(bs, i, j, f), i, j + 1)

compute_forces(bs) == PairLoop(ZeroAcc(bs, 1), 1, 2)

\* ------------------------------------------------------------ update_positions
\* Lines 50-51 with dt for dt**2.
Verlet_LinearDt(p, prev, a, step) ==
    Add(Sub(Mul(Fl(2), p), prev), Mul(a, Fl(step)))

\* Lines 50-51.
Verlet(p, prev, a, step) ==
    Add(Sub(Mul(Fl(2), p), prev), Mul(a, Fl(step * step)))

\* The new coordinates are numpy values once the acceleration is one, that
\* is once the body has been in a pair.
MoveBody(b, step, isnp) ==
    [b EXCEPT !.x = Verlet(b.x, b.prev_x, b.ax, step),
              !.y = Verlet(b.y, b.prev_y, b.ay, step),
              !.prev_x = b.x,
              !.prev_y = b.y,
              !.np = b.np \/ isnp]

\* Lines 49-53, from body k on.
RECURSIVE MoveFrom(_, _, _)
MoveFrom(bs, step, k) ==
    IF k > Len(bs) THEN bs
    ELSE MoveFrom([bs EXCEPT ![k] = MoveBody(@, step, Len(bs) >= 2)],
                  step, k + 1)

update_positions(bs, step) == MoveFrom(bs, step, 1)

\* ------------------------------------------------------------ trails
\* collections.deque(maxlen=n): append on a full deque discards the leftmost.
Deque(n) == [maxlen |-> n, items |-> <<>>]
DequeAppend(d, s) ==
    IF d.maxlen = 0 THEN d
    ELSE IF Len(d.items) = d.maxlen
    THEN [d EXCEPT !.items = Append(Tail(@), s)]
    ELSE [d EXCEPT !.items = Append(@, s)]
PopLeft(d) == [d EXCEPT !.items = Tail(@)]

\* v / SCALE_FACTOR, held as the exact quotient.
ScaleDown(v) == [num |-> v, den |-> SCALE_FACTOR]
Sample(b) == <<ScaleDown(b.x), ScaleDown(b.y)>>

\* Lines 203-205 for one trail.
RecordTrail(d, s, cap) ==
    LET a == DequeAppend(d, s)
    IN  IF Len(a.items) > cap THEN PopLeft(a) ELSE a

\* Lines 202-205.
RECURSIVE UpdateTrails(_, _, _, _)
UpdateTrails(ts, bs, cap, k) ==
    IF k > Len(bs) THEN ts
    ELSE UpdateTrails([ts EXCEPT ![k] = RecordTrail(@, Sample(bs[k]), cap)],
                      bs, cap, k + 1)

\* ------------------------------------------------------------ presets
PresetNames == {"Sistema Solar", "Estrela Binaria", "Orbita Lunar"}

presets(name) ==
    IF name = "Sistema Solar"
    THEN << Body(5, 0, 0, 0, 0), Body(1, 300, 0, 0, 150),
            Body(1, 500, 0, 0, 120), Body(1, 700, 0, 0, 100) >>
    ELSE IF name = "Estrela Binaria"
    THEN << Body(2, -100, 0, 0, 40), Body(2, 100, 0, 0, -40) >>
    ELSE << Body(5, 0, 0, 0, 0), Body(1, 200, 0, 0, 100) >>

\* Line 137: a fresh Body from each preset body's constructor arguments.
CopyPreset(name) ==
    LET p == presets(name)
    IN  [k \in 1..Len(p) |->
            Body(p[k].mass, Val(p[k].x), Val(p[k].y), p[k].vx, p[k].vy)]

\* ------------------------------------------------------------ update_plot
\* update_plot changes no field of the application.  The drawing calls are
\* outside the repository: handed a NaN coordinate (axis limits) or the log10
\* of a non-positive mass (marker size) they may raise.
PlotMayRaise(bs) ==
    \E k \in 1..Len(bs) : IsNaN(bs[k].x) \/ IsNaN(bs[k].y) \/ bs[k].mass <= 0
PlotOutcomes(bs) == IF PlotMayRaise(bs) THEN {"none", "PlotError"} ELSE {"none"}

\* ------------------------------------------------------------ inputs
\* The entries of the dialog that parse: mass, x, y, vx, vy.  The first is
\* the dialog's defaults (lines 146-150).
DialogEntries ==
    { <<1, 0, 0, 0, 0>>, <<0, 0, 200, 0, 0>>, <<-5, 0, -200, 0, 0>>,
      <<2, 100, 200, 30, 0>> }
Days == 1..MaxDays
TrailValues == TrailMin..TrailMax

\* ------------------------------------------------------------ Init
\* The state after SimulationApp.__init__ (lines 62-70): trail_length = 100
\* (line 64; the callback of trail_slider.set(100) raises and stores
\* nothing), dt = DT, and load_selected_preset finds preset_var empty and
\* loads "Sistema Solar".
Init ==
    /\ preset_var = "Sistema Solar"
    /\ bodies = CopyPreset("Sistema Solar")
    /\ trail_length = TrailInit
    /\ trail_slider = TrailInit
    /\ trails = [k \in 1..Len(presets("Sistema Solar")) |-> Deque(TrailInit)]
    /\ dt = DT
    /\ is_running = FALSE
    /\ pending = 0
    /\ nsteps = 0
    /\ nadded = 0
    /\ tsince = 0
    /\ recorded = [k \in 1..Len(presets("Sistema Solar")) |-> <<>>]
    /\ raised = "none"

\* ------------------------------------------------------------ handlers
\* Lines 131-139, with preset_var holding `selected`.
load_selected_preset(selected) ==
    LET preset_name == IF selected = "" THEN "Sistema Solar" ELSE selected
        bs == CopyPreset(preset_name)
    IN  /\ preset_var' = preset_name
        /\ bodies' = bs
        /\ trails' = [k \in 1..Len(bs) |-> Deque(trail_length)]
        /\ nsteps' = 0
        /\ nadded' = 0
        /\ tsince' = 0
        /\ recorded' = [k \in 1..Len(bs) |-> <<>>]

\* A choice in the combobox writes its textvariable, preset_var (line 80),
\* and nothing else.
SelectPreset ==
    /\ \E name \in PresetNames : preset_var' = name
    /\ raised' = "none"
    /\ UNCHANGED <<bodies, trails, trail_length, trail_slider, dt, is_running,
                   pending, nsteps, nadded, tsince, recorded>>

\* The "Carregar" button (line 82).
LoadButton ==
    /\ load_selected_preset(preset_var)
    /\ raised' = "none"
    /\ UNCHANGED <<trail_length, trail_slider, dt, is_running, pending>>

\* Lines 191-194.
reset_simulation ==
    /\ is_running' = FALSE
    /\ load_selected_preset(preset_var)
    /\ raised' = "none"
    /\ UNCHANGED <<trail_length, trail_slider, dt, pending>>

\* Line 176 left out: the body is appended without its trail.
AppendTrail_NoTrail(ts, cap) == ts

\* Line 176.
AppendTrail(ts, cap) == Append(ts, Deque(cap))

\* Lines 165-180 with the entries e, which parse: the body and its trail
\* are appended before update_plot runs, and an exception of update_plot is
\* caught and shown.
AddEntry(e) ==
    LET new_body == Body(e[1], e[2], e[3], e[4], e[5])
        bs == Append(bodies, new_body)
    IN  /\ bodies' = bs
        /\ trails' = AppendTrail(trails, trail_length)
        /\ recorded' = Append(recorded, <<>>)
        /\ \E out \in PlotOutcomes(bs) : raised' = out
        /\ nadded' = nadded + 1
        /\ UNCHANGED <<trail_length, trail_slider, dt, is_running,
                       preset_var, pending, nsteps, tsince>>

validate_new_body ==
    /\ nadded < MaxAdds
    /\ \E e \in DialogEntries : AddEntry(e)

\* Lines 165-180 with an entry float() rejects: the ValueError is caught and
\* shown.
validate_bad_text ==
    /\ raised' = "ValueError"
    /\ UNCHANGED <<bodies, trails, trail_length, trail_slider, dt,
                   is_running, preset_var, pending, nsteps, nadded, tsince,
                   recorded>>

\* Line 183; a day is the model's time unit.
update_dt(days) == days * DT

DtSlider ==
    /\ \E days \in Days : dt' = update_dt(days)
    /\ raised' = "none"
    /\ UNCHANGED <<bodies, trails, trail_length, trail_slider, is_running,
                   preset_var, pending, nsteps, nadded, tsince, recorded>>

\* Line 92: the Scale takes the value v and hands its command the text of
\* a float ('150.0'); int() of that text raises ValueError before setattr
\* runs, so trail_length keeps its value.
TrailSlider ==
    /\ \E v \in TrailValues : trail_slider' = v
    /\ tsince' = 0
    /\ raised' = "ValueError"
    /\ UNCHANGED <<bodies, trails, trail_length, dt, is_running, preset_var,
                   pending, nsteps, nadded, recorded>>

CoordsOk(bs) ==
    \A k \in 1..Len(bs) :
        /\ IF IsNaN(bs[k].x) THEN TRUE ELSE Abs(Val(bs[k].x)) <= MaxCoord
        /\ IF IsNaN(bs[k].y) THEN TRUE ELSE Abs(Val(bs[k].y)) <= MaxCoord

\* The bounds under which a step is explored.
StepExplored ==
    nsteps < MaxSteps /\ pending < MaxPending /\ CoordsOk(bodies)

\* Lines 198-208, reached with is_running true.
RunStep(queued) ==
    LET cf == compute_forces(bodies)
        moved == update_positions(cf.bodies, dt)
    IN  IF cf.raised
        THEN /\ bodies' = cf.bodies
             /\ pending' = queued
             /\ raised' = "ZeroDivisionError"
             /\ UNCHANGED <<trails, nsteps, tsince, recorded>>
        ELSE /\ bodies' = moved
             /\ trails' = UpdateTrails(trails, moved, trail_length, 1)
             /\ recorded' = [k \in 1..Len(recorded) |->
                               Append(recorded[k], Sample(moved[k]))]
             /\ nsteps' = nsteps + 1
             /\ tsince' = tsince + 1
             /\ \E out \in PlotOutcomes(moved) :
                  /\ pending' = IF out = "none" THEN queued + 1 ELSE queued
                  /\ raised' = out

\* Lines 196-208 with the simulation paused: nothing happens.
RunIdle(queued) ==
    /\ pending' = queued
    /\ raised' = "none"
    /\ UNCHANGED <<bodies, trails, nsteps, tsince, recorded>>

\* Lines 185-189.
toggle_simulation ==
    /\ is_running' = ~is_running
    /\ IF is_running'
       THEN StepExplored /\ RunStep(pending)
       ELSE RunIdle(pending)
    /\ UNCHANGED <<trail_length, trail_slider, dt, preset_var, nadded>>

\* The Tk timer runs a queued run_simulation callback (line 208).
TimerFires ==
    /\ pending > 0
    /\ IF is_running
       THEN StepExplored /\ RunStep(pending - 1)
       ELSE RunIdle(pending - 1)
    /\ UNCHANGED <<trail_length, trail_slider, dt, is_running, preset_var,
                   nadded>>

Next ==
    \/ SelectPreset
    \/ LoadButton
    \/ reset_simulation
    \/ validate_new_body
    \/ validate_bad_text
    \/ DtSlider
    \/ TrailSlider
    \/ toggle_simulation
    \/ TimerFires

Spec == Init /\ [][Next]_vars

\* ------------------------------------------------------------ properties
Finite(a) == ~IsNaN(a)
StepDone == nsteps' = nsteps + 1
Loaded == LoadButton \/ reset_simulation
StepAttempt ==
    is_running' /\ (toggle_simulation \/ TimerFires)

\* C1. Trail bound: when a step has recorded the trails, every trail is no
\* longer than the configured trail capacity, the value the trail control
\* was last set to.
C1_TrailBound ==
    [][StepDone =>
        \A k \in 1..Len(trails') :
            Len(trails'[k].items) <= trail_slider']_vars

\* The same against the trail_length attribute, which no handler changes.
TrailBoundAttribute ==
    [][StepDone =>
        \A k \in 1..Len(trails') :
            Len(trails'[k].items) <= trail_length']_vars

\* C2. Rejection: an add_body with mass <= 0 shows an error and leaves the
\* bodies and the trails as they were.
C2_Rejection ==
    [][\A e \in DialogEntries :
         (e[1] <= 0 /\ AddEntry(e)) =>
            (raised' # "none" /\ bodies' = bodies /\ trails' = trails)]_vars

\* C3. Index alignment: the trails and the bodies are equally many in every
\* state; an add_body that parses appends exactly one body and one empty
\* trail; a load replaces both collections, leaving every trail empty.
C3_IndexAlignment ==
    /\ [](Len(trails) = Len(bodies))
    /\ [][nadded' = nadded + 1 =>
            /\ Len(bodies') = Len(bodies) + 1
            /\ SubSeq(bodies', 1, Len(bodies)) = bodies
            /\ Len(trails') = Len(trails) + 1
            /\ SubSeq(trails', 1, Len(trails)) = trails
            /\ trails'[Len(trails')].items = <<>>]_vars
    /\ [][Loaded =>
            /\ Len(trails') = Len(bodies')
            /\ \A k \in 1..Len(trails') : trails'[k].items = <<>>]_vars
C3_Witness ==
    /\ nadded = 1 /\ nsteps >= 1 /\ preset_var = "Orbita Lunar"
    /\ Len(bodies) = 3 /\ Len(trails) = 3
    /\ Len(trails[1].items) > Len(trails[3].items)

AllPositive(bs) == \A k \in 1..Len(bs) : bs[k].mass > 0
SamePlace(bi, bj) ==
    Finite(bi.x) /\ Finite(bi.y) /\ bi.x = bj.x /\ bi.y = bj.y
Coincident(bs) ==
    \E i \in 1..Len(bs) : \E j \in (i + 1)..Len(bs) : SamePlace(bs[i], bs[j])

\* C4. Coincident bodies never cause an error: a step on bodies of positive
\* mass, two of them at the same position, raises nothing and leaves every
\* body a finite acceleration.
C4_CoincidentNoError ==
    [][(StepAttempt /\ AllPositive(bodies) /\ Coincident(bodies)) =>
         /\ raised' = "none"
         /\ \A k \in 1..Len(bodies') :
               Finite(bodies'[k].ax) /\ Finite(bodies'[k].ay)]_vars

RECURSIVE SumSeq(_, _)
SumSeq(fs, k) == IF k > Len(fs) THEN Fl(0) ELSE Add(fs[k], SumSeq(fs, k + 1))
\* dt times the total momentum: the sum of mass * (position - previous).
Momentum(bs) ==
    << SumSeq([k \in 1..Len(bs) |->
                 Mul(Fl(bs[k].mass), Sub(bs[k].x, bs[k].prev_x))], 1),
       SumSeq([k \in 1..Len(bs) |->
                 Mul(Fl(bs[k].mass), Sub(bs[k].y, bs[k].prev_y))], 1) >>

\* C5. Momentum conservation: a step on bodies no two of which coincide
\* leaves the total momentum as it was.
C5_MomentumConserved ==
    [][(StepDone /\ ~Coincident(bodies)) =>
         Momentum(bodies') = Momentum(bodies)]_vars

\* The same for bodies of non-zero mass: C5 fails only through the body of
\* mass zero that validate_new_body accepts (C2).
MomentumConservedNonZero ==
    [][(StepDone /\ ~Coincident(bodies)
          /\ \A k \in 1..Len(bodies) : bodies[k].mass # 0) =>
         Momentum(bodies') = Momentum(bodies)]_vars

\* C6. Symmetry, as claimed: for two bodies of positive mass at distinct
\* positions, what compute_forces adds to the acceleration of i and what it
\* adds to the acceleration of j are equal in magnitude and opposite.
Distinct(bi, bj) ==
    /\ Finite(bi.x) /\ Finite(bi.y) /\ Finite(bj.x) /\ Finite(bj.y)
    /\ (bi.x # bj.x \/ bi.y # bj.y)
\* The pairs (i, j) of compute_forces with positive masses and distinct
\* positions, in the coordinate range in which steps are explored.
PairsOf(bs) ==
    { p \in (1..Len(bs)) \X (1..Len(bs)) :
        /\ p[1] < p[2]
        /\ CoordsOk(bs)
        /\ bs[p[1]].mass > 0 /\ bs[p[2]].mass > 0
        /\ Distinct(bs[p[1]], bs[p[2]]) }
C6_EqualAccelerations ==
    \A p \in PairsOf(bodies) :
        LET bi == bodies[p[1]]
            bj == bodies[p[2]]
            f == PairForce(bi, bj)
        IN  /\ Add(ContribToI(f.fx, bi), ContribToJ(f.fx, bj)) = Fl(0)
            /\ Add(ContribToI(f.fy, bi), ContribToJ(f.fy, bj)) = Fl(0)

\* C6 as amended: the two contributions are opposite in direction and equal
\* in magnitude once each is multiplied by its body's mass (equal and
\* opposite forces); the accelerations are equal in magnitude when the
\* masses are equal.
C6_EqualForces ==
    \A p \in PairsOf(bodies) :
        LET bi == bodies[p[1]]
            bj == bodies[p[2]]
            f == PairForce(bi, bj)
            ci == <<ContribToI(f.fx, bi), ContribToI(f.fy, bi)>>
            cj == <<ContribToJ(f.fx, bj), ContribToJ(f.fy, bj)>>
        IN  \A c \in 1..2 :
              /\ Finite(ci[c]) /\ Finite(cj[c])
              /\ bi.mass * Val(ci[c]) + bj.mass * Val(cj[c]) = 0
              /\ (Val(ci[c]) >= 0) = (Val(cj[c]) <= 0) \/ Val(ci[c]) = 0
              /\ bi.mass = bj.mass => Val(ci[c]) = -Val(cj[c])
\* Bodies of unequal mass have been stepped under a non-zero mutual force.
C6_Witness ==
    /\ nsteps >= 1
    /\ \E p \in PairsOf(bodies) :
          /\ bodies[p[1]].mass # bodies[p[2]].mass
          /\ Val(PairForce(bodies[p[1]], bodies[p[2]]).fx) # 0
          /\ Val(PairForce(bodies[p[1]], bodies[p[2]]).fy) # 0

\* The construction Body.__init__ would make with the step in effect.
Bootstrapped(b, step) ==
    /\ b.prev_x = Fl(Val(b.x) - b.vx * step)
    /\ b.prev_y = Fl(Val(b.y) - b.vy * step)

\* C7. Bootstrap uses the current time step: a body made by add_body or by
\* a load has previous_position = position - velocity * dt, dt the
\* simulation's time step at that moment.
C7_BootstrapUsesDt ==
    [][/\ nadded' = nadded + 1 =>
            Bootstrapped(bodies'[Len(bodies')], dt)
       /\ Loaded =>
            \A k \in 1..Len(bodies') : Bootstrapped(bodies'[k], dt)]_vars

LastN(seq, n) == SubSeq(seq, Len(seq) - n + 1, Len(seq))

\* C8. Trails retain the most recent samples: once n steps have run since
\* the trail control was set to n (or since the load, with the n then in
\* effect), every trail holds exactly the n samples recorded last.
C8_TrailsRetainRecent ==
    tsince >= trail_slider =>
        \A k \in 1..Len(trails) :
            Len(recorded[k]) >= trail_slider =>
                trails[k].items = LastN(recorded[k], trail_slider)

\* C9. Verlet step with forward-only dt: a step gives every body
\* 2*position - previous + acceleration*dt^2 with the dt of that moment and
\* makes the old position the previous one; a change of dt changes no body
\* and no trail.
VerletRule(new, old, step) ==
    /\ new.prev_x = old.x /\ new.prev_y = old.y
    /\ IF Finite(old.x) /\ Finite(old.prev_x) /\ Finite(new.ax)
       THEN new.x = Fl(2 * Val(old.x) - Val(old.prev_x)
                          + Val(new.ax) * step * step)
       ELSE new.x = NaN
    /\ IF Finite(old.y) /\ Finite(old.prev_y) /\ Finite(new.ay)
       THEN new.y = Fl(2 * Val(old.y) - Val(old.prev_y)
                          + Val(new.ay) * step * step)
       ELSE new.y = NaN
C9_VerletForwardDt ==
    [][/\ StepDone =>
            /\ Len(bodies') = Len(bodies)
            /\ \A k \in 1..Len(bodies) : VerletRule(bodies'[k], bodies[k], dt)
       /\ dt' # dt => UNCHANGED <<bodies, trails>>]_vars
\* Two steps have run, the last with a dt other than the default, and some
\* body has moved under a non-zero acceleration.
C9_Witness ==
    /\ nsteps = 2 /\ dt # DT
    /\ \E k \in 1..Len(bodies) :
          /\ Finite(bodies[k].ax) /\ Val(bodies[k].ax) # 0
          /\ Finite(bodies[k].x) /\ Finite(bodies[k].prev_x)
          /\ bodies[k].x # bodies[k].prev_x

\* C10. Single step chain: at most one run_simulation callback is queued.
C10_SingleChain == pending <= 1

====
